---- MODULE Spec2Model ----
(***************************************************************************)
(* Model of droid/connection.py (pyDroidDepot): the frame codec            *)
(* (build_droid_command, send_droid_command, send_droid_multi_command) and  *)
(* the connection session (connect, disconnect, heartbeat loop).           *)
(*                                                                         *)
(* A Python str is a sequence of one-character strings; a bytearray is a   *)
(* sequence of integers in 0..255.  A call that may raise returns a record *)
(* [raised |-> BOOLEAN, value |-> ...].                                    *)
(***************************************************************************)
EXTENDS Integers, Sequences, FiniteSets, TLC

(***************************************************************************)
(* Bounds of the model                                                     *)
(***************************************************************************)
\* longest free-form tail of a payload string drawn as codec input
MaxTail == 2

(***************************************************************************)
(* Characters and hex parsing (bytes.fromhex)                              *)
(***************************************************************************)
HexDigits ==
  {"0","1","2","3","4","5","6","7","8","9",
   "a","b","c","d","e","f","A","B","C","D","E","F"}

\* ASCII whitespace, which bytes.fromhex skips between byte pairs
Whitespace == {" "}

HexVal(c) ==
  CASE c = "0" -> 0 [] c = "1" -> 1 [] c = "2" -> 2 [] c = "3" -> 3
    [] c = "4" -> 4 [] c = "5" -> 5 [] c = "6" -> 6 [] c = "7" -> 7
    [] c = "8" -> 8 [] c = "9" -> 9
    [] c \in {"a","A"} -> 10 [] c \in {"b","B"} -> 11
    [] c \in {"c","C"} -> 12 [] c \in {"d","D"} -> 13
    [] c \in {"e","E"} -> 14 [] c \in {"f","F"} -> 15

\* bytes.fromhex(s) reads s left to right: whitespace is skipped before a
\* byte pair, then two hex digits make one byte; anything else (a non-hex
\* character, whitespace or the end of s after a lone digit) is a ValueError.
\* The scan state is [raised, value, high]: high is the first digit of a
\* pair still waiting for its second, or -1.
fromhex_start == [raised |-> FALSE, value |-> <<>>, high |-> 0 - 1]

fromhex_step(st, c) ==
  IF st.raised THEN st
  ELSE IF st.high < 0
       THEN IF c \in Whitespace THEN st
            ELSE IF c \in HexDigits THEN [st EXCEPT !.high = HexVal(c)]
            ELSE [raised |-> TRUE, value |-> <<>>, high |-> 0 - 1]
       ELSE IF c \in HexDigits
            THEN [raised |-> FALSE,
                  value |-> Append(st.value, 16 * st.high + HexVal(c)),
                  high |-> 0 - 1]
            ELSE [raised |-> TRUE, value |-> <<>>, high |-> 0 - 1]

\* two consecutive stretches of the scan, the second entered at a pair boundary
fromhex_join(a, b) ==
  IF b.raised THEN b
  ELSE [raised |-> FALSE, value |-> a.value \o b.value, high |-> b.high]

\* the left-to-right scan of s[lo..hi] entered at a pair boundary, evaluated
\* by halves: when the left half ends on a lone first digit, the character
\* after it is consumed as its second digit before the right half is scanned
RECURSIVE fromhex_scan(_, _, _)
fromhex_scan(s, lo, hi) ==
  IF lo > hi THEN fromhex_start
  ELSE IF lo = hi THEN fromhex_step(fromhex_start, s[lo])
  ELSE LET mid  == (lo + hi) \div 2
           left == fromhex_scan(s, lo, mid)
       IN  IF left.raised THEN left
           ELSE IF left.high < 0
                THEN fromhex_join(left, fromhex_scan(s, mid + 1, hi))
           ELSE LET pair == fromhex_step(left, s[mid + 1])
                IN  IF pair.raised THEN pair
                    ELSE fromhex_join(pair, fromhex_scan(s, mid + 2, hi))

fromhex(s) ==
  LET end == fromhex_scan(s, 1, Len(s))
  IN  IF end.raised \/ end.high >= 0
      THEN [raised |-> TRUE, value |-> <<>>]
      ELSE [raised |-> FALSE, value |-> end.value]

\* x | 0x20 on a non-negative Python int
Or0x20(x) == IF (x \div 32) % 2 = 1 THEN x ELSE x + 32

\* bytearray4 with items wrapped into a byte instead of rejected
bytearray4_wrapping(b1, b2, b3, b4) ==
  [raised |-> FALSE, value |-> <<b1 % 256, b2 % 256, b3 % 256, b4 % 256>>]

\* bytearray([b1, b2, b3, b4]): ValueError unless every item is in range(256)
bytearray4(b1, b2, b3, b4) ==
  IF \A b \in {b1, b2, b3, b4} : b \in 0..255
  THEN [raised |-> FALSE, value |-> <<b1, b2, b3, b4>>]
  ELSE [raised |-> TRUE, value |-> <<>>]

(***************************************************************************)
(* Frame codec                                                             *)
(***************************************************************************)
\* build_droid_command with byte4 taken from the total length
build_droid_command_total_length(command_id, data) ==
  LET data_length   == Len(data) \div 2
      header_length == 3
      byte2         == IF command_id = 15 THEN 66 ELSE 0
      total_length  == data_length + header_length
      byte1         == Or0x20(total_length)
      byte3         == command_id
      byte4         == total_length + 64
      header        == bytearray4(byte1, byte2, byte3, byte4)
      body          == fromhex(data)
  IN  IF header.raised \/ body.raised
      THEN [raised |-> TRUE, value |-> <<>>]
      ELSE [raised |-> FALSE, value |-> header.value \o body.value]

build_droid_command(command_id, data) ==
  LET data_length   == Len(data) \div 2
      header_length == 3
      byte2         == IF command_id = 15 THEN 66 ELSE 0
      total_length  == data_length + header_length
      byte1         == Or0x20(total_length)
      byte3         == command_id
      byte4         == data_length + 64
      header        == bytearray4(byte1, byte2, byte3, byte4)
      body          == fromhex(data)
  IN  IF header.raised \/ body.raised
      THEN [raised |-> TRUE, value |-> <<>>]
      ELSE [raised |-> FALSE, value |-> header.value \o body.value]

\* command ids of droid.protocol.DroidCommand used by this file: the
\* multipurpose id is the one that carries the 0x42 flag byte; the
\* flash/status id is some other id
MultipurposeCommand == 15
FlashPairingLed == 0

DigitChar(d) ==
  CASE d = 0 -> "0" [] d = 1 -> "1" [] d = 2 -> "2" [] d = 3 -> "3"
    [] d = 4 -> "4" [] d = 5 -> "5" [] d = 6 -> "6" [] d = 7 -> "7"
    [] d = 8 -> "8" [] d = 9 -> "9"

\* str(n) for n >= 0
RECURSIVE DecStr(_)
DecStr(n) ==
  IF n < 10 THEN <<DigitChar(n)>> ELSE DecStr(n \div 10) \o <<DigitChar(n % 10)>>

\* format02d without the zero padding ("{:d}")
format02d_unpadded(n) == DecStr(n)

\* "{:02d}".format(n): decimal, zero-padded to a minimum width of two
format02d(n) == IF Len(DecStr(n)) < 2 THEN <<"0">> \o DecStr(n) ELSE DecStr(n)

\* the composite payload string of send_droid_multi_command:
\* "44%s%s" % ("{:02d}".format(command_id), data)
multi_command(command_id, data) == <<"4", "4">> \o format02d(command_id) \o data

\* the frame send_droid_multi_command hands to the transport
build_droid_multi_command(command_id, data) ==
  build_droid_command(MultipurposeCommand, multi_command(command_id, data))

\* bytearray.fromhex(command.hex()): hex-encode the frame and parse it back
NibbleChar(d) ==
  CASE d < 10 -> DigitChar(d)
    [] d = 10 -> "a" [] d = 11 -> "b" [] d = 12 -> "c"
    [] d = 13 -> "d" [] d = 14 -> "e" [] d = 15 -> "f"

hex(bs) ==
  [i \in 1..(2 * Len(bs)) |->
     IF i % 2 = 1 THEN NibbleChar(bs[(i + 1) \div 2] \div 16)
                  ELSE NibbleChar(bs[i \div 2] % 16)]

wire_bytes(command) == fromhex(hex(command)).value

(***************************************************************************)
(* State                                                                   *)
(***************************************************************************)
VARIABLES
  codec_call,       \* a direct call of the codec: [op, id, data]
  codec_result,     \* what that call returned or raised
  droid,            \* self.droid: "None" or "client" (the current BleakClient)
  is_connected,     \* self.droid.is_connected of the current client
  closed,           \* disconnect() has been called on the current client
  wire,             \* frames written through the current client, in order
  manufacturer_data,\* self.manufacturer_data: has the Disney key or not, and its bytes
  personality_id,   \* self.personality_id
  affilliation_id,  \* self.affilliation_id
  heartbeat_thread, \* self.heartbeat_thread: "None" or "thread"
  loop_running,     \* some thread is inside heartbeat_loop.run_forever()
  loop_stopping,    \* heartbeat_loop.stop() has been called and not yet honoured
  loop_cur,         \* the heartbeat coroutine the loop thread is running, or 0
  tasks,            \* state of each scheduled __send_heartbeat_command coroutine
  pc,               \* the caller's position inside connect / disconnect
  silent,           \* the silent argument of the running connect / disconnect
  timeout,          \* connect's local timeout, in steps of 0.1
  n_connect,        \* number of connect() calls so far
  pending_exc,      \* disconnect: the try block raised, finally is running
  outcome,          \* last finished caller operation and whether it raised
  disc_entry,       \* session state when the last disconnect() was called
  disc_log,         \* what the last disconnect() did to transport and loop, in order
  cue_failed,       \* the shutdown cue of the last disconnect() raised
  sent,             \* a caller command was written through the current client
  hb_after_close,   \* a heartbeat write was attempted on a client closed by disconnect()
  profile,          \* self.profile: the address of the device the session is for
  scan_pc,          \* the position of a discover_droid() call
  retry,            \* the retry argument of discover_droid
  seen_devices,     \* the scanner's discovered devices, in the order they were seen
  droids,           \* discover_droid's local list of matching devices
  discovered_droid, \* discover_droid's local result: <<>> for None, or <<device>>
  backoff,          \* whether discover_droid slept since its previous poll
  found             \* how discover_droid ended, and the address it returned

codec_vars == <<codec_call, codec_result>>

session_vars ==
  <<droid, is_connected, closed, wire, manufacturer_data, personality_id,
    affilliation_id, heartbeat_thread, loop_running, loop_stopping, loop_cur,
    tasks, pc, silent, timeout, n_connect, pending_exc, outcome, disc_entry,
    disc_log, cue_failed, sent, hb_after_close>>

discover_vars ==
  <<scan_pc, retry, seen_devices, droids, discovered_droid, backoff, found>>

vars == <<codec_vars, session_vars, profile, discover_vars>>

(***************************************************************************)
(* Bounds and inputs of the session model                                  *)
(***************************************************************************)
\* connect() calls in one run (each schedules one heartbeat coroutine)
MaxConnects == 2
\* frames recorded per client
MaxWire == 3

\* the poll ceiling of connect: the number of times .1 is added to the float
\* timeout before timeout < 10 fails (the 100th sum is 9.99999999999998, the
\* 101st is 10.09999999999998)
PollCeiling == 101

TaskIds == 1..MaxConnects

\* vendor bytes a session may have been constructed with
NoVendorKey == [has_key |-> FALSE, data |-> <<>>]
VendorBytes(bs) == [has_key |-> TRUE, data |-> bs]
VendorData ==
  {NoVendorKey, VendorBytes(<<>>), VendorBytes(<<7>>), VendorBytes(<<128, 7>>)}

\* commands the caller issues: (command_id, data)
CallerCommands == {<<3, <<"f", "f">>>>, <<3, <<"f">>>>}
CallerMultiCommands == {<<5, <<"f", "f">>>>, <<100, <<"f", "f">>>>}

\* the address a directly constructed session is given as its profile
DirectProfile == 1

\* the enum defaults of __init__, kept apart from any value read from vendor bytes
RUnit == [from_vendor |-> FALSE, value |-> 0]
Scoundrel == [from_vendor |-> FALSE, num |-> 0, den |-> 1]

(***************************************************************************)
(* Session: construction                                                   *)
(***************************************************************************)
CodecIdle ==
  /\ codec_call = [op |-> "none", id |-> 0, data |-> <<>>]
  /\ codec_result = [raised |-> FALSE, value |-> <<>>]

\* DroidConnection.__init__
SessionInit ==
  /\ profile = DirectProfile
  /\ droid = "None"
  /\ is_connected = FALSE
  /\ closed = FALSE
  /\ wire = <<>>
  /\ manufacturer_data \in VendorData
  /\ personality_id = RUnit
  /\ affilliation_id = Scoundrel
  /\ heartbeat_thread = "None"
  /\ loop_running = FALSE
  /\ loop_stopping = FALSE
  /\ loop_cur = 0
  /\ tasks = [t \in TaskIds |-> "absent"]
  /\ pc = "idle"
  /\ silent = FALSE
  /\ timeout = 0
  /\ n_connect = 0
  /\ pending_exc = FALSE
  /\ outcome = [op |-> "none", raised |-> FALSE]
  /\ disc_entry = "none"
  /\ disc_log = <<>>
  /\ cue_failed = FALSE
  /\ sent = FALSE
  /\ hb_after_close = FALSE

\* no discover_droid() call has been made: the session was constructed
\* directly by its caller
NoDiscovery ==
  /\ scan_pc = "idle"
  /\ retry = FALSE
  /\ seen_devices = <<>>
  /\ droids = <<>>
  /\ discovered_droid = <<>>
  /\ backoff = "first"
  /\ found = [kind |-> "none", value |-> <<>>]

Init == CodecIdle /\ SessionInit /\ NoDiscovery

(***************************************************************************)
(* Transport (BleakClient)                                                 *)
(***************************************************************************)
\* self.droid.write_gatt_char(0x000d, frame): AttributeError when self.droid
\* is None, BleakError when the client is not connected
WriteRaises == droid = "None" \/ ~is_connected

WireAfter(src, frame) == Append(wire, [src |-> src, frame |-> frame])

ident_vars == <<manufacturer_data, personality_id, affilliation_id>>
loop_vars == <<heartbeat_thread, loop_running, loop_stopping, loop_cur, tasks>>
disc_vars == <<pending_exc, disc_entry, disc_log, cue_failed>>

\* the link drops outside of a disconnect() call
LinkLost ==
  /\ droid = "client"
  /\ is_connected
  /\ is_connected' = FALSE
  /\ UNCHANGED <<codec_vars, profile, discover_vars, droid, closed, wire, ident_vars, loop_vars,
                 disc_vars, pc, silent, timeout, n_connect, outcome, sent,
                 hb_after_close>>

(***************************************************************************)
(* Session: connect                                                        *)
(***************************************************************************)
\* bytearray.fromhex("222001")
connect_code == fromhex(<<"2", "2", "2", "0", "0", "1">>).value

\* the caller operation ends by raising / by returning
\* (its silent argument goes out of scope)
Raise(op) ==
  pc' = "idle" /\ silent' = FALSE /\ outcome' = [op |-> op, raised |-> TRUE]
Return(op) ==
  pc' = "idle" /\ silent' = FALSE /\ outcome' = [op |-> op, raised |-> FALSE]
\* the caller operation goes on to its next step
Goto(next) == pc' = next /\ UNCHANGED <<silent, outcome>>
NoHistory ==
  /\ disc_entry' = "none"
  /\ disc_log' = <<>>
  /\ cue_failed' = FALSE
  /\ hb_after_close' = FALSE

\* lines 72-74: a new BleakClient replaces self.droid and its connect() is
\* awaited; it raises, or returns with the link up or not yet up
connect_open(s) ==
  /\ pc = "idle"
  /\ n_connect < MaxConnects
  /\ n_connect' = n_connect + 1
  /\ droid' = "client"
  /\ closed' = FALSE
  /\ wire' = <<>>
  /\ sent' = FALSE
  /\ timeout' = 0
  /\ \E r \in {"raise", "up", "down"} :
       /\ is_connected' = (r = "up")
       /\ IF r = "raise"
          THEN Raise("connect")
          ELSE /\ pc' = "c_poll"
               /\ silent' = s
               /\ outcome' = [op |-> "none", raised |-> FALSE]
  /\ NoHistory
  /\ UNCHANGED <<codec_vars, profile, discover_vars, ident_vars, loop_vars, pending_exc>>

\* connect_poll with the timeout never advanced: the loop ends only when the
\* transport reports connected
connect_poll_without_ceiling ==
  /\ pc = "c_poll"
  /\ IF ~is_connected
     THEN /\ \E up \in BOOLEAN : is_connected' = up
          /\ UNCHANGED <<pc, timeout>>
     ELSE /\ timeout' = 0
          /\ pc' = "c_hs1"
          /\ UNCHANGED is_connected
  /\ UNCHANGED <<codec_vars, profile, discover_vars, droid, closed, wire, ident_vars, loop_vars,
                 disc_vars, silent, n_connect, outcome, sent, hb_after_close>>

\* lines 76-78: while not is_connected and timeout < 10: sleep(.1); timeout += .1
connect_poll ==
  /\ pc = "c_poll"
  /\ IF ~is_connected /\ timeout < PollCeiling
     THEN /\ timeout' = timeout + 1
          /\ \E up \in BOOLEAN : is_connected' = up
          /\ UNCHANGED pc
     ELSE /\ timeout' = 0
          /\ pc' = "c_hs1"
          /\ UNCHANGED is_connected
  /\ UNCHANGED <<codec_vars, profile, discover_vars, droid, closed, wire, ident_vars, loop_vars,
                 disc_vars, silent, n_connect, outcome, sent, hb_after_close>>

\* lines 81-82: the two handshake writes
connect_handshake ==
  /\ pc \in {"c_hs1", "c_hs2"}
  /\ IF WriteRaises
     THEN Raise("connect") /\ UNCHANGED wire
     ELSE /\ Len(wire) < MaxWire
          /\ wire' = WireAfter("connect", connect_code)
          /\ Goto(IF pc = "c_hs1" THEN "c_hs2" ELSE "c_ident")
  /\ UNCHANGED <<codec_vars, profile, discover_vars, droid, is_connected, closed, ident_vars,
                 loop_vars, disc_vars, timeout, n_connect, sent,
                 hb_after_close>>

\* seq[i] for a Python index i (negative indices count from the end);
\* IndexError when out of range
PyIndexRaises(seq, i) == i >= Len(seq) \/ i < 0 - Len(seq)
PyIndex(seq, i) == IF i < 0 THEN seq[Len(seq) + i + 1] ELSE seq[i + 1]

\* lines 84-87: identity from the last two vendor bytes; the affiliation is
\* the float (byte - 0x80) / 2, kept as numerator and denominator
connect_identity ==
  /\ pc = "c_ident"
  /\ IF ~manufacturer_data.has_key
     THEN Raise("connect") /\ UNCHANGED <<personality_id, affilliation_id>>
     ELSE LET droid_data     == manufacturer_data.data
              droid_data_len == Len(droid_data)
          IN  IF PyIndexRaises(droid_data, droid_data_len - 1)
              THEN Raise("connect") /\ UNCHANGED <<personality_id, affilliation_id>>
              ELSE /\ personality_id' =
                        [from_vendor |-> TRUE,
                         value |-> PyIndex(droid_data, droid_data_len - 1)]
                   /\ IF PyIndexRaises(droid_data, droid_data_len - 2)
                      THEN Raise("connect") /\ UNCHANGED affilliation_id
                      ELSE /\ affilliation_id' =
                                [from_vendor |-> TRUE,
                                 num |-> PyIndex(droid_data, droid_data_len - 2) - 128,
                                 den |-> 2]
                           /\ Goto(IF silent THEN "c_start" ELSE "c_pair")
  /\ UNCHANGED <<codec_vars, profile, discover_vars, droid, is_connected, closed, wire,
                 manufacturer_data, loop_vars, disc_vars, timeout,
                 n_connect, sent, hb_after_close>>

\* The collaborators (droid.script, droid.audio) reach the transport only
\* through the session's send methods.  One multi-command stands for what the
\* pairing script sends and one for the shutdown cue; their ids and payloads
\* are stand-ins, only the write itself matters to the session.
PairingScriptCall == <<1, <<"0", "1">>>>
ShutdownAudioCall == <<2, <<"0", "2">>>>

\* script_engine.execute_script(DroidPairingSequence1): sends through the session
pairing_command ==
  build_droid_multi_command(PairingScriptCall[1], PairingScriptCall[2])
pairing_frame == wire_bytes(pairing_command.value)

execute_script ==
  LET command == pairing_command
  IN  IF command.raised \/ WriteRaises
      THEN [raised |-> TRUE, wire |-> wire]
      ELSE [raised |-> FALSE, wire |-> WireAfter("script", pairing_frame)]

\* audio_controller.play_shutdown_audio(): sends through the session
shutdown_command ==
  build_droid_multi_command(ShutdownAudioCall[1], ShutdownAudioCall[2])
shutdown_frame == wire_bytes(shutdown_command.value)

play_shutdown_audio ==
  LET command == shutdown_command
  IN  IF command.raised \/ WriteRaises
      THEN [raised |-> TRUE, wire |-> wire]
      ELSE [raised |-> FALSE, wire |-> WireAfter("audio", shutdown_frame)]

\* lines 89-91: the pairing script and the settle sleep, when not silent
connect_pair ==
  /\ pc = "c_pair"
  /\ LET r == execute_script
     IN  IF r.raised
         THEN Raise("connect") /\ UNCHANGED wire
         ELSE /\ Len(wire) < MaxWire
              /\ wire' = r.wire
              /\ Goto("c_start")
  /\ UNCHANGED <<codec_vars, profile, discover_vars, droid, is_connected, closed, ident_vars,
                 loop_vars, disc_vars, timeout, n_connect, sent,
                 hb_after_close>>

\* lines 93-95: a new thread enters heartbeat_loop.run_forever() (and dies at
\* once with RuntimeError when the loop is already running), and one more
\* __send_heartbeat_command coroutine is scheduled on the loop
connect_start ==
  /\ pc = "c_start"
  /\ heartbeat_thread' = "thread"
  /\ loop_running' = TRUE
  /\ tasks' = [tasks EXCEPT ![n_connect] = "new"]
  /\ Return("connect")
  /\ UNCHANGED <<codec_vars, profile, discover_vars, droid, is_connected, closed, wire, ident_vars,
                 loop_stopping, loop_cur, disc_vars, timeout,
                 n_connect, sent, hb_after_close>>

(***************************************************************************)
(* Heartbeat loop and the keep-alive coroutines                            *)
(***************************************************************************)
heartbeat_data ==
  <<"0","2","0","0","0","1","f","f","0","1","f","f","0","a","f","f","0","0">>

\* the frame of line 112, built and hex round-tripped as send_droid_command does
heartbeat_command == build_droid_command(FlashPairingLed, heartbeat_data)
heartbeat_frame == wire_bytes(heartbeat_command.value)

\* __start_heartbeat_loop / run_forever: the loop thread picks a coroutine
\* that is ready to run: a newly scheduled one, or one whose awaited write
\* has returned (it then sits in sleep(10) before its next check)
start_heartbeat_loop(t) ==
  /\ loop_running
  /\ loop_cur = 0
  /\ tasks[t] \in {"new", "awaiting"}
  /\ loop_cur' = t
  /\ tasks' = [tasks EXCEPT ![t] = "check"]
  /\ UNCHANGED <<codec_vars, profile, discover_vars, droid, is_connected, closed, wire, ident_vars,
                 heartbeat_thread, loop_running, loop_stopping, disc_vars,
                 pc, silent, timeout, n_connect, outcome, sent, hb_after_close>>

\* send_heartbeat_command_check looping without looking at the link (while True)
send_heartbeat_command_check_unconditional(t) ==
  /\ loop_cur = t
  /\ tasks[t] = "check"
  /\ tasks' = [tasks EXCEPT ![t] = "send"]
  /\ UNCHANGED <<codec_vars, profile, discover_vars, droid, is_connected, closed, wire, ident_vars,
                 heartbeat_thread, loop_running, loop_stopping, loop_cur,
                 disc_vars, pc, silent, timeout, n_connect, outcome, sent,
                 hb_after_close>>

\* line 111: while self.droid.is_connected
send_heartbeat_command_check(t) ==
  /\ loop_cur = t
  /\ tasks[t] = "check"
  /\ IF is_connected
     THEN tasks' = [tasks EXCEPT ![t] = "send"] /\ UNCHANGED loop_cur
     ELSE tasks' = [tasks EXCEPT ![t] = "done"] /\ loop_cur' = 0
  /\ UNCHANGED <<codec_vars, profile, discover_vars, droid, is_connected, closed, wire, ident_vars,
                 heartbeat_thread, loop_running, loop_stopping, disc_vars,
                 pc, silent, timeout, n_connect, outcome, sent, hb_after_close>>

\* line 112: await self.send_droid_command(FlashPairingLed, ...); a write that
\* raises ends the coroutine, a write that is accepted suspends it
send_heartbeat_command_send(t) ==
  /\ loop_cur = t
  /\ tasks[t] = "send"
  /\ LET command == heartbeat_command
     IN  IF command.raised \/ WriteRaises
         THEN /\ tasks' = [tasks EXCEPT ![t] = "done"]
              /\ hb_after_close' = (hb_after_close \/ (~command.raised /\ closed))
              /\ UNCHANGED wire
         ELSE /\ Len(wire) < MaxWire
              /\ wire' = WireAfter("heartbeat", heartbeat_frame)
              /\ tasks' = [tasks EXCEPT ![t] = "awaiting"]
              /\ UNCHANGED hb_after_close
  /\ loop_cur' = 0
  /\ UNCHANGED <<codec_vars, profile, discover_vars, droid, is_connected, closed, ident_vars,
                 heartbeat_thread, loop_running, loop_stopping, disc_vars,
                 pc, silent, timeout, n_connect, outcome, sent>>

\* run_forever leaves once stop() has been seen between two callbacks
heartbeat_loop_exit ==
  /\ loop_running
  /\ loop_stopping
  /\ loop_cur = 0
  /\ loop_running' = FALSE
  /\ loop_stopping' = FALSE
  /\ UNCHANGED <<codec_vars, profile, discover_vars, droid, is_connected, closed, wire, ident_vars,
                 heartbeat_thread, loop_cur, tasks, disc_vars, pc, silent,
                 timeout, n_connect, outcome, sent, hb_after_close>>

(***************************************************************************)
(* Session: disconnect                                                     *)
(***************************************************************************)
\* the session as its caller sees it before a call
SessionState ==
  IF droid = "None" THEN "never_connected"
  ELSE IF closed THEN "disconnected"
  ELSE "open"

\* line 120-122: disconnect(silent) is entered
disconnect_begin(s) ==
  /\ pc = "idle"
  /\ silent' = s
  /\ disc_entry' = SessionState
  /\ disc_log' = <<>>
  /\ cue_failed' = FALSE
  /\ pending_exc' = FALSE
  /\ pc' = IF s THEN "d_close" ELSE "d_cue"
  /\ outcome' = [op |-> "none", raised |-> FALSE]
  /\ UNCHANGED <<codec_vars, profile, discover_vars, droid, is_connected, closed, wire, ident_vars,
                 loop_vars, timeout, n_connect, sent, hb_after_close>>

\* lines 123-124: the shutdown cue and the settle sleep; the cue raises when
\* its write raises, and it may fail on its own
disconnect_cue ==
  /\ pc = "d_cue"
  /\ \E fails \in BOOLEAN :
       LET r == play_shutdown_audio
       IN  IF fails \/ r.raised
           THEN /\ pending_exc' = TRUE
                /\ cue_failed' = TRUE
                /\ UNCHANGED wire
           ELSE /\ Len(wire) < MaxWire
                /\ wire' = r.wire
                /\ UNCHANGED <<pending_exc, cue_failed>>
  /\ pc' = "d_close"
  /\ UNCHANGED <<codec_vars, profile, discover_vars, droid, is_connected, closed, ident_vars,
                 loop_vars, disc_entry, disc_log, silent, timeout, n_connect,
                 outcome, sent, hb_after_close>>

\* disconnect_close outside of a finally block: an exception of the shutdown
\* cue leaves disconnect() before the transport is closed
disconnect_close_without_finally ==
  /\ pc = "d_close"
  /\ IF droid = "None" \/ pending_exc
     THEN /\ Raise("disconnect")
          /\ UNCHANGED <<is_connected, closed, disc_log>>
     ELSE /\ is_connected' = FALSE
          /\ closed' = TRUE
          /\ disc_log' = Append(disc_log, "close")
          /\ Goto("d_stop")
  /\ UNCHANGED <<codec_vars, profile, discover_vars, droid, wire, ident_vars, loop_vars, pending_exc,
                 disc_entry, cue_failed, timeout, n_connect, sent,
                 hb_after_close>>

\* line 126 (finally): await self.droid.disconnect(); AttributeError when
\* self.droid is None, which leaves the finally block at once
disconnect_close ==
  /\ pc = "d_close"
  /\ IF droid = "None"
     THEN /\ Raise("disconnect")
          /\ UNCHANGED <<is_connected, closed, disc_log>>
     ELSE /\ is_connected' = FALSE
          /\ closed' = TRUE
          /\ disc_log' = Append(disc_log, "close")
          /\ Goto("d_stop")
  /\ UNCHANGED <<codec_vars, profile, discover_vars, droid, wire, ident_vars, loop_vars, pending_exc,
                 disc_entry, cue_failed, timeout, n_connect, sent,
                 hb_after_close>>

\* lines 128-129 (finally): heartbeat_loop.stop(); then the exception of the
\* try block, if any, propagates
disconnect_stop ==
  /\ pc = "d_stop"
  /\ loop_stopping' = TRUE
  /\ disc_log' = Append(disc_log, "stop")
  /\ IF pending_exc THEN Raise("disconnect") ELSE Return("disconnect")
  /\ pending_exc' = FALSE
  /\ UNCHANGED <<codec_vars, profile, discover_vars, droid, is_connected, closed, wire, ident_vars,
                 heartbeat_thread, loop_running, loop_cur, tasks, disc_entry,
                 cue_failed, timeout, n_connect, sent, hb_after_close>>

(***************************************************************************)
(* Session: sending commands                                               *)
(***************************************************************************)
\* lines 182-183: build the frame, then write it; nothing is written when
\* build_droid_command raises
send_droid_command(command_id, data) ==
  /\ pc = "idle"
  /\ LET command == build_droid_command(command_id, data)
     IN  IF command.raised \/ WriteRaises
         THEN /\ outcome' = [op |-> "send", raised |-> TRUE]
              /\ UNCHANGED <<wire, sent>>
         ELSE /\ Len(wire) < MaxWire
              /\ wire' = WireAfter("caller", wire_bytes(command.value))
              /\ sent' = TRUE
              /\ outcome' = [op |-> "send", raised |-> FALSE]
  /\ UNCHANGED <<codec_vars, profile, discover_vars, droid, is_connected, closed, ident_vars,
                 loop_vars, disc_vars, pc, silent, timeout, n_connect,
                 hb_after_close>>

\* lines 196-197: the composite payload goes through send_droid_command
send_droid_multi_command(command_id, data) ==
  /\ pc = "idle"
  /\ LET command == build_droid_multi_command(command_id, data)
     IN  IF command.raised \/ WriteRaises
         THEN /\ outcome' = [op |-> "multi", raised |-> TRUE]
              /\ UNCHANGED <<wire, sent>>
         ELSE /\ Len(wire) < MaxWire
              /\ wire' = WireAfter("caller", wire_bytes(command.value))
              /\ sent' = TRUE
              /\ outcome' = [op |-> "multi", raised |-> FALSE]
  /\ UNCHANGED <<codec_vars, profile, discover_vars, droid, is_connected, closed, ident_vars,
                 loop_vars, disc_vars, pc, silent, timeout, n_connect,
                 hb_after_close>>

(***************************************************************************)
(* The session specification                                               *)
(***************************************************************************)
Next ==
  \/ \E s \in BOOLEAN : connect_open(s)
  \/ connect_poll
  \/ connect_handshake
  \/ connect_identity
  \/ connect_pair
  \/ connect_start
  \/ \E t \in TaskIds : start_heartbeat_loop(t)
  \/ \E t \in TaskIds : send_heartbeat_command_check(t)
  \/ \E t \in TaskIds : send_heartbeat_command_send(t)
  \/ heartbeat_loop_exit
  \/ \E s \in BOOLEAN : disconnect_begin(s)
  \/ disconnect_cue
  \/ disconnect_close
  \/ disconnect_stop
  \/ \E c \in CallerCommands : send_droid_command(c[1], c[2])
  \/ \E c \in CallerMultiCommands : send_droid_multi_command(c[1], c[2])
  \/ LinkLost

Spec == Init /\ [][Next]_vars

(***************************************************************************)
(* The codec specification: the codec called directly on drawn inputs      *)
(***************************************************************************)
TailAlphabet == {"0", "f", "F", "g", " "}
Tails == UNION {[1..n -> TailAlphabet] : n \in 0..MaxTail}

\* payload sizes (in bytes) of the hex prefix put before a tail
PadBytes == {0, 1, 188, 189, 190, 191, 192}
Pad(k) == [i \in 1..(2 * k) |-> IF i % 2 = 1 THEN "a" ELSE "5"]
Payloads == {Pad(k) \o t : k \in PadBytes, t \in Tails}

\* command ids / sub-command ids, all within [0,255]
Ids == {0, 5, 15, 16, 99, 100, 255}

CodecInit ==
  /\ codec_call \in [op : {"none"}, id : Ids, data : Payloads]
  /\ codec_result = [raised |-> FALSE, value |-> <<>>]
  /\ SessionInit
  /\ manufacturer_data = NoVendorKey
  /\ NoDiscovery

Encode ==
  /\ codec_call.op = "none"
  /\ codec_call' = [codec_call EXCEPT !.op = "encode"]
  /\ codec_result' = build_droid_command(codec_call.id, codec_call.data)
  /\ UNCHANGED <<session_vars, profile, discover_vars>>

EncodeMulti ==
  /\ codec_call.op = "none"
  /\ codec_call' = [codec_call EXCEPT !.op = "multi"]
  /\ codec_result' = build_droid_multi_command(codec_call.id, codec_call.data)
  /\ UNCHANGED <<session_vars, profile, discover_vars>>

CodecNext == Encode \/ EncodeMulti

CodecSpec == CodecInit /\ [][CodecNext]_vars

(***************************************************************************)
(* Discovery: discover_droid(retry), called on its own                     *)
(***************************************************************************)
\* devices that may advertise while a scan runs
MaxDevices == 2

Addresses == 1..MaxDevices
Names == {"DROID", "Other"}
Devices == [address : Addresses, name : Names]

\* advertising_data.manufacturer_data of the device at an address
VendorOf(address) == VendorBytes(<<128, address>>)

SeenAddresses == {seen_devices[i].address : i \in 1..Len(seen_devices)}

\* the scanner is between its start and its stop
Scanning == scan_pc \in {"s_start", "s_loop", "s_sleep", "s_scan"}

\* BleakScanner: a device not seen before is added to the scanner's
\* dictionary, which keeps the order of insertion
scanner_detect(device) ==
  /\ Scanning
  /\ device.address \notin SeenAddresses
  /\ seen_devices' = Append(seen_devices, device)
  /\ UNCHANGED <<codec_vars, session_vars, profile, scan_pc, retry, droids,
                 discovered_droid, backoff, found>>

\* discover_droid ends by raising
Fail(kind) ==
  scan_pc' = "s_done" /\ found' = [kind |-> kind, value |-> <<>>]

\* lines 226-227: discovered_droid = None; async with BleakScanner() starts
\* the scanner, which may raise BleakError
discover_enter(r) ==
  /\ scan_pc = "idle"
  /\ retry' = r
  /\ discovered_droid' = <<>>
  /\ \E raises \in BOOLEAN :
       IF raises THEN Fail("BleakError")
                 ELSE scan_pc' = "s_start" /\ UNCHANGED found
  /\ UNCHANGED <<codec_vars, session_vars, profile, seen_devices, droids,
                 backoff>>

\* lines 228-230: await scanner.start(), which may raise BleakError; droids = []
discover_start ==
  /\ scan_pc = "s_start"
  /\ droids' = <<>>
  /\ \E raises \in BOOLEAN :
       IF raises THEN Fail("BleakError")
                 ELSE scan_pc' = "s_loop" /\ UNCHANGED found
  /\ UNCHANGED <<codec_vars, session_vars, profile, retry, seen_devices,
                 discovered_droid, backoff>>

\* lines 231-233: while retry and len(droids) == 0; one poll reads the
\* scanner's dictionary and goes to sleep when it is empty
discover_poll ==
  /\ scan_pc = "s_loop"
  /\ IF retry /\ Len(droids) = 0
     THEN /\ scan_pc' = IF Len(seen_devices) = 0 THEN "s_sleep" ELSE "s_scan"
          /\ backoff' = "unslept"
     ELSE /\ scan_pc' = "s_exit"
          /\ UNCHANGED backoff
  /\ UNCHANGED <<codec_vars, session_vars, profile, retry, seen_devices,
                 droids, discovered_droid, found>>

\* line 234: await asyncio.sleep(5)
discover_sleep ==
  /\ scan_pc = "s_sleep"
  /\ backoff' = "slept"
  /\ scan_pc' = "s_scan"
  /\ UNCHANGED <<codec_vars, session_vars, profile, retry, seen_devices,
                 droids, discovered_droid, found>>

\* the devices of a dictionary whose name is "DROID", in dictionary order
Matching(devices) == SelectSeq(devices, LAMBDA d : d.name = "DROID")

\* lines 236-253: collect the devices named "DROID"; with none, return when
\* not retrying and poll again otherwise; else take the first one
discover_scan ==
  /\ scan_pc = "s_scan"
  /\ droids' = droids \o Matching(seen_devices)
  /\ IF Len(droids') = 0
     THEN IF ~retry
          THEN /\ scan_pc' = "s_done"
               /\ found' = [kind |-> "returned", value |-> <<>>]
               /\ UNCHANGED discovered_droid
          ELSE /\ scan_pc' = "s_loop"
               /\ UNCHANGED <<found, discovered_droid>>
     ELSE /\ discovered_droid' = <<droids'[1]>>
          /\ scan_pc' = "s_loop"
          /\ UNCHANGED found
  /\ UNCHANGED <<codec_vars, session_vars, profile, retry, seen_devices,
                 backoff>>

\* discover_exit constructing the session from whatever
\* discovered_droid holds, None included: DroidConnection(*None) is a TypeError
discover_exit_unguarded ==
  /\ scan_pc = "s_exit"
  /\ scan_pc' = "s_done"
  /\ IF discovered_droid = <<>>
     THEN /\ found' = [kind |-> "TypeError", value |-> <<>>]
          /\ UNCHANGED <<profile, manufacturer_data>>
     ELSE /\ profile' = discovered_droid[1].address
          /\ manufacturer_data' = VendorOf(discovered_droid[1].address)
          /\ found' = [kind |-> "returned",
                       value |-> <<discovered_droid[1].address>>]
  /\ UNCHANGED <<codec_vars, droid, is_connected, closed, wire,
                 personality_id, affilliation_id, loop_vars, disc_vars, pc,
                 silent, timeout, n_connect, outcome, sent, hb_after_close,
                 retry, seen_devices, droids, discovered_droid, backoff>>

\* lines 255-260, after the scanner is stopped: None when nothing was
\* discovered, else DroidConnection(ble_device, manufacturer_data)
discover_exit ==
  /\ scan_pc = "s_exit"
  /\ scan_pc' = "s_done"
  /\ IF discovered_droid = <<>>
     THEN /\ found' = [kind |-> "returned", value |-> <<>>]
          /\ UNCHANGED <<profile, manufacturer_data>>
     ELSE /\ profile' = discovered_droid[1].address
          /\ manufacturer_data' = VendorOf(discovered_droid[1].address)
          /\ found' = [kind |-> "returned",
                       value |-> <<discovered_droid[1].address>>]
  /\ UNCHANGED <<codec_vars, droid, is_connected, closed, wire,
                 personality_id, affilliation_id, loop_vars, disc_vars, pc,
                 silent, timeout, n_connect, outcome, sent, hb_after_close,
                 retry, seen_devices, droids, discovered_droid, backoff>>

DiscoverInit ==
  /\ CodecIdle
  /\ SessionInit
  /\ manufacturer_data = NoVendorKey
  /\ NoDiscovery

DiscoverNext ==
  \/ \E r \in BOOLEAN : discover_enter(r)
  \/ discover_start
  \/ \E device \in Devices : scanner_detect(device)
  \/ discover_poll
  \/ discover_sleep
  \/ discover_scan
  \/ discover_exit

DiscoverSpec == DiscoverInit /\ [][DiscoverNext]_vars

(***************************************************************************)
(* Properties of the codec                                                 *)
(***************************************************************************)
IsHex(data) == \A i \in 1..Len(data) : data[i] \in HexDigits
EvenHex(data) == IsHex(data) /\ Len(data) % 2 = 0

\* the bytes an even-length hex string denotes
PayloadBytes(data) ==
  [i \in 1..(Len(data) \div 2) |->
     16 * HexVal(data[2 * i - 1]) + HexVal(data[2 * i])]

\* the frame layout of the data model: [(n + 3) | 0x20, flag, id, n + 0x40, payload]
FrameLayout(id, bytes) ==
  LET n == Len(bytes)
      tagged == IF (n + 3) % 64 >= 32 THEN n + 3 ELSE n + 3 + 32
  IN  <<tagged, IF id = 15 THEN 66 ELSE 0, id, n + 64>> \o bytes

Encoded == codec_call.op = "encode"
EncodedMulti == codec_call.op = "multi"
CallBytes == PayloadBytes(codec_call.data)

\* the largest payload whose length byte n + 0x40 still fits a byte
MaxFramePayload == 255 - 64

\* C7 as stated: every even-length hex payload encodes to the frame layout
C7_EncodeLayoutAnySize ==
  (Encoded /\ EvenHex(codec_call.data))
    => codec_result = [raised |-> FALSE,
                       value |-> FrameLayout(codec_call.id, CallBytes)]

\* C7 (amended): for every command id in [0,255] and every even-length hex
\* payload of n <= 191 bytes, encode returns exactly
\* [(n + 3) | 0x20, flag, command_id, n + 0x40, payload bytes], with flag 0x42
\* for command id 15 and 0x00 otherwise
C7_EncodeLayout ==
  (Encoded /\ EvenHex(codec_call.data) /\ Len(CallBytes) <= MaxFramePayload)
    => codec_result = [raised |-> FALSE,
                       value |-> FrameLayout(codec_call.id, CallBytes)]

C7_Witness ==
  /\ Encoded
  /\ codec_call.id = 15
  /\ codec_call.data = Pad(190) \o <<"f", "F">>
  /\ ~codec_result.raised
  /\ Len(codec_result.value) = 195
  /\ codec_result.value[1] = 226
  /\ codec_result.value[2] = 66
  /\ codec_result.value[4] = 255
  /\ codec_result.value[195] = 255

\* C8 as stated: an odd-length or non-hex payload makes encode fail with the
\* malformed-payload error, and no frame is returned
C8_MalformedRejected ==
  (Encoded /\ (Len(codec_call.data) % 2 = 1 \/ ~IsHex(codec_call.data)))
    => (codec_result.raised /\ codec_result.value = <<>>)

\* C9 as stated: encode succeeds on every even-length hex payload, whatever
\* its size
C9_NoUpperBound ==
  (Encoded /\ EvenHex(codec_call.data)) => ~codec_result.raised

\* C9 (amended): the codec has no size check of its own, yet the size is
\* bounded: on an even-length hex payload of n bytes encode succeeds exactly
\* when n <= 191, and fails with the malformed-payload error from n = 192 on,
\* where n + 0x40 no longer fits a byte
C9_BoundedByLengthByte ==
  (Encoded /\ EvenHex(codec_call.data))
    => (codec_result.raised <=> Len(CallBytes) > MaxFramePayload)

C9_Witness ==
  /\ Encoded
  /\ codec_call.data = Pad(192)
  /\ codec_result.raised

\* the byte whose two hex digits are the decimal digits of a sub-command id
DecimalAsHex(sub) == 16 * (sub \div 10) + (sub % 10)

MultiPayload == <<68, DecimalAsHex(codec_call.id)>> \o CallBytes

\* encode on a payload given as bytes
EncodeBytes(id, bytes) ==
  IF Len(bytes) > MaxFramePayload
  THEN [raised |-> TRUE, value |-> <<>>]
  ELSE [raised |-> FALSE, value |-> FrameLayout(id, bytes)]

\* C10 as stated: for every sub-command id in [0,255], encode_multi equals
\* encode(MultipurposeCommand, 0x44 . decimal-as-hex(sub) . payload)
C10_MultiFramingAnyId ==
  (EncodedMulti /\ EvenHex(codec_call.data))
    => codec_result = EncodeBytes(MultipurposeCommand, MultiPayload)

\* C10 (amended): for every sub-command id in [0,99] and every even-length
\* hex payload, encode_multi equals encode(MultipurposeCommand, P) with P the
\* byte 0x44, the byte whose hex digits are the two decimal digits of the id,
\* then the payload; for an id in [100,255] the id takes three digits and
\* encode_multi fails with the malformed-payload error
C10_MultiFraming ==
  (EncodedMulti /\ EvenHex(codec_call.data))
    => IF codec_call.id <= 99
       THEN codec_result = EncodeBytes(MultipurposeCommand, MultiPayload)
       ELSE codec_result = [raised |-> TRUE, value |-> <<>>]

C10_Witness ==
  /\ EncodedMulti
  /\ codec_call.id = 5
  /\ codec_call.data = <<"f", "f">>
  /\ codec_result = [raised |-> FALSE, value |-> <<38, 66, 15, 67, 68, 5, 255>>]

(***************************************************************************)
(* The keep-alive specification: one session with usable vendor bytes,     *)
(* its caller connecting and disconnecting, the link dropping, and the     *)
(* heartbeat thread scheduled fairly (an OS thread keeps running whenever  *)
(* it has a step to take)                                                  *)
(***************************************************************************)
\* one step of the heartbeat thread
heartbeat_thread_step ==
  \E t \in TaskIds :
    \/ start_heartbeat_loop(t)
    \/ send_heartbeat_command_check(t)
    \/ send_heartbeat_command_send(t)

KeepAliveInit == Init /\ manufacturer_data = VendorBytes(<<128, 7>>)

KeepAliveNext ==
  \/ \E s \in BOOLEAN : connect_open(s)
  \/ connect_poll
  \/ connect_handshake
  \/ connect_identity
  \/ connect_pair
  \/ connect_start
  \/ heartbeat_thread_step
  \/ heartbeat_loop_exit
  \/ \E s \in BOOLEAN : disconnect_begin(s)
  \/ disconnect_cue
  \/ disconnect_close
  \/ disconnect_stop
  \/ LinkLost

KeepAliveSpec ==
  KeepAliveInit /\ [][KeepAliveNext]_vars /\ WF_vars(heartbeat_thread_step)

(***************************************************************************)
(* Properties of the session                                               *)
(***************************************************************************)
Range(f) == {f[i] : i \in DOMAIN f}

\* a disconnect() call on a session that had been connected has just ended
DisconnectEnded ==
  pc = "idle" /\ outcome.op = "disconnect" /\ droid = "client"

\* the current client has been closed by disconnect()
TransportClosed == droid = "client" /\ closed

C2_DisconnectIdempotent ==
  (pc = "idle" /\ outcome.op = "disconnect"
     /\ disc_entry \in {"never_connected", "disconnected"})
    => ~outcome.raised

\* C3 as stated: within a disconnect() the transport is closed only after
\* the heartbeat loop has been told to stop
C3_StopBeforeClose ==
  \A i \in 1..Len(disc_log) :
    disc_log[i] = "close" => \E j \in 1..(i - 1) : disc_log[j] = "stop"

\* C4 as stated: no keep-alive write is attempted on a transport that
\* disconnect() has closed
C4_NoWriteAfterClose == ~hb_after_close

LiveKeepAlives == {t \in TaskIds : tasks[t] \notin {"absent", "done"}}

\* C5 as stated: between the caller's connect() / disconnect() calls at most
\* one keep-alive coroutine is alive
C5_OneKeepAlive == pc = "idle" => Cardinality(LiveKeepAlives) <= 1

\* the status/flash frame: 2c 00 <id> 49 02 00 01 ff 01 ff 0a ff 00
StatusFlashFrame ==
  <<44, 0, FlashPairingLed, 73, 2, 0, 1, 255, 1, 255, 10, 255, 0>>

\* no keep-alive coroutine is running or can be resumed
KeepAliveQuiet ==
  \A t \in TaskIds :
    \/ tasks[t] \in {"absent", "done"}
    \/ tasks[t] \in {"new", "awaiting"} /\ ~loop_running

ConnectSucceeded == \E t \in TaskIds : tasks[t] # "absent"

ShortVendorData ==
  manufacturer_data.has_key /\ Len(manufacturer_data.data) < 2

\* C11 as stated: with vendor bytes of fewer than 2 elements identity
\* extraction fails and connect() is aborted: no connect() returns normally,
\* no keep-alive coroutine is started, and the identity stays at its defaults
C11_ShortVendorAborts ==
  ShortVendorData =>
    /\ ~(pc = "idle" /\ outcome = [op |-> "connect", raised |-> FALSE])
    /\ ~ConnectSucceeded
    /\ personality_id = RUnit
    /\ affilliation_id = Scoundrel

\* the handshake frame 22 20 01
HandshakeFrame == <<34, 32, 1>>

\* the caller is inside connect()
Connecting == pc \in {"c_poll", "c_hs1", "c_hs2", "c_ident", "c_pair", "c_start"}

\* a keep-alive coroutine has a frame accepted by the transport
KeepAliveWrites ==
  \E t \in TaskIds : tasks[t] = "send" /\ tasks'[t] = "awaiting"

\* C16 as stated: on the transport opened by a connect() the handshake frame
\* 22 20 01 is written exactly twice and before any other frame, a keep-alive
\* coroutine is scheduled only by the last step of connect(), and no
\* keep-alive frame is written while connect() is still under way
C16_HandshakeFirst ==
  /\ [](\A i \in 1..Len(wire) :
          IF wire[i].src = "connect"
          THEN i <= 2 /\ wire[i].frame = HandshakeFrame
          ELSE i > 2 /\ wire[1].src = "connect" /\ wire[2].src = "connect")
  /\ [][\A t \in TaskIds :
          (tasks[t] = "absent" /\ tasks'[t] # "absent") => pc = "c_start"]_vars
  /\ [][KeepAliveWrites => ~Connecting]_vars

(***************************************************************************)
(* The connect specification: the keep-alive session with the caller's     *)
(* own thread running on through the blocking sleep(.1) of the poll        *)
(***************************************************************************)
ConnectSpec ==
  KeepAliveInit /\ [][KeepAliveNext]_vars /\ WF_vars(connect_poll)

\* a step of the poll loop: one more sleep(.1), or the loop is left
PollStep == pc = "c_poll" /\ (pc' # "c_poll" \/ timeout' # timeout)

\* the accumulated timeout has reached 10
CeilingReached == timeout >= PollCeiling

\* C17: the poll of connect() always terminates: each poll adds one step of
\* 0.1 to the timeout, the loop goes on only while the transport is not
\* connected and the ceiling is not reached, and in either case connect()
\* goes on to the first handshake write without raising
C17_PollTerminates ==
  /\ [](pc = "c_poll" => timeout <= PollCeiling)
  /\ [][PollStep =>
          IF is_connected \/ CeilingReached
          THEN pc' = "c_hs1" /\ outcome' = outcome
          ELSE pc' = "c_poll" /\ timeout' = timeout + 1]_vars
  /\ (pc = "c_poll") ~> (pc = "c_hs1")

C17_Witness ==
  /\ pc = "c_poll"
  /\ CeilingReached
  /\ ~is_connected
  /\ outcome = [op |-> "none", raised |-> FALSE]

\* the session is disconnected: no connect() was ever called, or a
\* disconnect() has closed the transport and no connect() was called since
Disconnected ==
  pc = "idle" /\ (n_connect = 0 \/ "close" \in Range(disc_log))

\* C18 as stated: whenever the session is disconnected, self.droid is None
C18_HandleAbsentWhenDisconnected == Disconnected => droid = "None"

identity == <<personality_id, affilliation_id>>

\* the identity that vendor bytes [.., a, p] stand for: p and (a - 0x80) / 2
VendorIdentity ==
  LET data == manufacturer_data.data
  IN  <<[from_vendor |-> TRUE, value |-> data[Len(data)]],
        [from_vendor |-> TRUE, num |-> data[Len(data) - 1] - 128, den |-> 2]>>

\* connect() returns normally
ConnectReturns ==
  /\ Connecting
  /\ pc' = "idle"
  /\ outcome' = [op |-> "connect", raised |-> FALSE]

\* C19 as stated: outside of a connect() call the identity is the pair of
\* defaults as long as no connect() has succeeded; a connect() that succeeds
\* on vendor bytes [.., a, p] leaves personality_id = p and affilliation_id =
\* (a - 0x80) / 2; and afterwards no step outside of connect() (a send, a
\* keep-alive write, a disconnect) changes the identity
C19_IdentityFrame ==
  /\ []((~Connecting /\ ~ConnectSucceeded) => identity = <<RUnit, Scoundrel>>)
  /\ [][(ConnectReturns /\ manufacturer_data.has_key
           /\ Len(manufacturer_data.data) >= 2)
          => identity' = VendorIdentity]_vars
  /\ [][(ConnectSucceeded /\ ~Connecting /\ pc' # "c_poll")
          => identity' = identity]_vars

\* C20 as stated: when connect() has ended by raising, the session has no
\* open transport and no live keep-alive coroutine
C20_FailedConnectCleansUp ==
  (pc = "idle" /\ outcome = [op |-> "connect", raised |-> TRUE])
    => (~is_connected /\ LiveKeepAlives = {})

(***************************************************************************)
(* Properties of discovery                                                 *)
(***************************************************************************)
DiscoverEnded == scan_pc = "s_done"

\* the devices named "DROID" among those the scan observed
Observed == Matching(seen_devices)

\* C12: discover_droid(retry = False) whose scan observed no device named
\* "DROID" returns None and does not raise
C12_SingleShotAbsent ==
  (DiscoverEnded /\ ~retry /\ found.kind # "BleakError" /\ Len(Observed) = 0)
    => found = [kind |-> "returned", value |-> <<>>]

C12_Witness ==
  /\ DiscoverEnded
  /\ ~retry
  /\ Len(seen_devices) = 1
  /\ seen_devices[1].name = "Other"
  /\ found = [kind |-> "returned", value |-> <<>>]

\* C13 as stated: for either value of retry, a discover_droid() that returns
\* gives the first observed device named "DROID", and None only when no
\* such device was observed
C13_FirstMatchReturned ==
  (DiscoverEnded /\ found.kind = "returned")
    => found.value = IF Len(Observed) = 0 THEN <<>>
                     ELSE <<Observed[1].address>>

\* C14 as stated: in retry mode no scanner error ever leaves discover_droid
C14_ScanErrorsSwallowed ==
  (DiscoverEnded /\ retry) => found.kind # "BleakError"

\* a poll (the read of the scanner's dictionary) that follows an earlier poll
PollAgain ==
  /\ scan_pc = "s_loop"
  /\ scan_pc' \in {"s_sleep", "s_scan"}
  /\ backoff # "first"

\* C15 as stated: in retry mode discover_droid never returns None, and
\* between two consecutive polls without a match it has slept the 5 s backoff
C15_BackoffBetweenPolls ==
  /\ []((DiscoverEnded /\ retry /\ found.kind = "returned")
          => found.value # <<>>)
  /\ [][PollAgain => backoff = "slept"]_vars

====
